---- MODULE Spec2Model ----
(***************************************************************************)
(* A model of minijson: the Lexer (src/src/lexer.rs) and the recursive-    *)
(* descent Parser (src/src/parser.rs).                                     *)
(*                                                                         *)
(* A source text is a sequence of Unicode scalar values.  Each scalar is   *)
(* written as a short string; scalars that are not ASCII carry a name      *)
(* ("nbsp" is U+00A0, "idsp" is U+3000, "eacute" is U+00E9, "cjk" is       *)
(* U+6CE5, "euro" is U+20AC).  A &str is the sequence of its scalars, and  *)
(* byte offsets into it are computed from len_utf8 of every scalar, so     *)
(* that a slice at an offset inside a scalar panics as it does in Rust.    *)
(***************************************************************************)
EXTENDS Integers, Sequences, FiniteSets, TLC

VARIABLES source, lexer, peeked, tokens, results, panicked

vars == <<source, lexer, peeked, tokens, results, panicked>>

(***************************************************************************)
(* Bounds of the checked input sets.                                       *)
(***************************************************************************)
MaxPieces == 3
MaxStringChars == 5
MaxNumberChars == 4
MaxIdentPieces == 3
MaxWsChars == 4
MaxParserPieces == 4
MaxNone == 2
MaxParses == 2
MaxPairs == 3
MaxElements == 3
MaxConsumePieces == 2
MaxConsumes == 2
MaxPrimaryPieces == 2
MaxPrimaries == 2
MaxPullPieces == 3

(***************************************************************************)
(* Scalars and the std predicates the lexer calls on them.                 *)
(***************************************************************************)
AsciiLetters == {"t", "r", "u", "e", "f", "a", "l", "s", "n", "y"}

Digits == {"0", "1", "2"}

\* char::len_utf8
len_utf8(c) ==
    IF c \in {"nbsp", "eacute"} THEN 2
    ELSE IF c \in {"idsp", "cjk", "euro"} THEN 3
    ELSE 1

\* char::is_whitespace (Unicode White_Space)
is_whitespace(c) == c \in {" ", "\n", "\t", "nbsp", "idsp"}

\* char::is_digit(10)
is_digit(c) == c \in Digits

\* char::is_ascii_alphabetic
is_ascii_alphabetic(c) == c \in AsciiLetters

\* char::is_alphabetic (Unicode Alphabetic)
is_alphabetic(c) == c \in AsciiLetters \cup {"eacute", "cjk"}

\* str::len: the length of a &str in bytes
RECURSIVE str_len(_)
str_len(s) == IF s = <<>> THEN 0 ELSE len_utf8(Head(s)) + str_len(Tail(s))

\* s.is_char_boundary(n): n is 0, the byte length, or the offset of a scalar
is_char_boundary(s, n) ==
    \E k \in 0..Len(s) : str_len(SubSeq(s, 1, k)) = n

\* the number of scalars of s that lie before the char boundary n
CharsBefore(s, n) ==
    CHOOSE k \in 0..Len(s) : str_len(SubSeq(s, 1, k)) = n

\* &s[..n]: panics unless n is a char boundary of s
SliceTo(s, n) ==
    IF is_char_boundary(s, n)
    THEN [panic |-> FALSE, str |-> SubSeq(s, 1, CharsBefore(s, n))]
    ELSE [panic |-> TRUE, str |-> <<>>]

\* &s[n..]: panics unless n is a char boundary of s
SliceFrom(s, n) ==
    IF is_char_boundary(s, n)
    THEN [panic |-> FALSE, str |-> SubSeq(s, CharsBefore(s, n) + 1, Len(s))]
    ELSE [panic |-> TRUE, str |-> <<>>]

\* &s[a..b]
Slice(s, a, b) ==
    IF a <= b /\ is_char_boundary(s, a) /\ is_char_boundary(s, b)
    THEN [panic |-> FALSE,
          str |-> SubSeq(s, CharsBefore(s, a) + 1, CharsBefore(s, b))]
    ELSE [panic |-> TRUE, str |-> <<>>]

\* s.chars().take_while(p).count() for the three predicates the lexer uses
RECURSIVE CountWhitespace(_)
CountWhitespace(s) ==
    IF s # <<>> /\ is_whitespace(Head(s)) THEN 1 + CountWhitespace(Tail(s)) ELSE 0

RECURSIVE CountAsciiAlphabetic(_)
CountAsciiAlphabetic(s) ==
    IF s # <<>> /\ is_ascii_alphabetic(Head(s))
    THEN 1 + CountAsciiAlphabetic(Tail(s))
    ELSE 0

RECURSIVE CountDigits(_, _)
CountDigits(s, from) ==
    IF from <= Len(s) /\ is_digit(s[from]) THEN 1 + CountDigits(s, from + 1) ELSE 0

(***************************************************************************)
(* Meta: the token categories.                                             *)
(***************************************************************************)
LeftBrace == [tag |-> "LeftBrace"]
LeftSquare == [tag |-> "LeftSquare"]
RightBrace == [tag |-> "RightBrace"]
RightSquare == [tag |-> "RightSquare"]
Comma == [tag |-> "Comma"]
Colon == [tag |-> "Colon"]
StringLiteral(s) == [tag |-> "StringLiteral", val |-> s]
BoolLiteral(b) == [tag |-> "BoolLiteral", val |-> b]
NumberLiteral(n) == [tag |-> "NumberLiteral", val |-> n]
NullLiteral == [tag |-> "NullLiteral"]
Eof == [tag |-> "Eof"]
Error(msg) == [tag |-> "Error", val |-> msg]

meta_type(m) ==
    CASE m.tag = "BoolLiteral" -> "bool"
      [] m.tag = "StringLiteral" -> "string"
      [] m.tag = "NumberLiteral" -> "number"
      [] m.tag = "Error" -> "Error"
      [] m.tag = "LeftBrace" -> "'{'"
      [] m.tag = "RightBrace" -> "'}'"
      [] m.tag = "LeftSquare" -> "'['"
      [] m.tag = "RightSquare" -> "']'"
      [] m.tag = "Colon" -> "':'"
      [] m.tag = "NullLiteral" -> "null"
      [] m.tag = "Comma" -> ","
      [] m.tag = "Eof" -> "EOF"

(***************************************************************************)
(* str::parse::<f64> on a literal the number scan accepted: the value is   *)
(* the pair <<m, k>> standing for m / 10^k, with trailing zeros of the     *)
(* fraction dropped, so that 42, 42.0 and 42.00 are one value.             *)
(***************************************************************************)
DigitValue(c) == CASE c = "0" -> 0 [] c = "1" -> 1 [] c = "2" -> 2

RECURSIVE DigitsValue(_, _)
DigitsValue(s, acc) ==
    IF s = <<>> THEN acc
    ELSE IF Head(s) = "." THEN DigitsValue(Tail(s), acc)
    ELSE DigitsValue(Tail(s), 10 * acc + DigitValue(Head(s)))

RECURSIVE Normalise(_, _)
Normalise(m, k) ==
    IF k > 0 /\ m % 10 = 0 THEN Normalise(m \div 10, k - 1) ELSE <<m, k>>

FractionDigits(s) ==
    IF \E i \in 1..Len(s) : s[i] = "."
    THEN Len(s) - (CHOOSE i \in 1..Len(s) : s[i] = ".")
    ELSE 0

parse_f64(literal) ==
    LET neg == literal # <<>> /\ Head(literal) = "-"
        body == IF neg THEN Tail(literal) ELSE literal
        n == Normalise(DigitsValue(body, 0), FractionDigits(body))
    IN  IF neg THEN <<0 - n[1], n[2]>> ELSE n

(***************************************************************************)
(* Lexer.  Every method takes the lexer state and returns the record       *)
(* [panic, lexer, tok]: whether the call panicked, the state it leaves,    *)
(* and the token it returns.                                               *)
(***************************************************************************)
Lexer_new(src) == [start |-> src, line |-> 1, column |-> 1, done |-> FALSE]

NoToken == <<>>

Some(x) == <<x>>

\* a faulty variant: the column advances by the bytes of a scalar
RECURSIVE AdvancePositionBytes(_, _, _)
AdvancePositionBytes(literal, line, column) ==
    IF literal = <<>> THEN <<line, column>>
    ELSE IF Head(literal) = "\n"
    THEN AdvancePositionBytes(Tail(literal), line + 1, 1)
    ELSE AdvancePositionBytes(Tail(literal), line, column + len_utf8(Head(literal)))

\* a faulty variant: a newline resets the column and leaves the line as it is
RECURSIVE AdvancePositionSameLine(_, _, _)
AdvancePositionSameLine(literal, line, column) ==
    IF literal = <<>> THEN <<line, column>>
    ELSE IF Head(literal) = "\n"
    THEN AdvancePositionSameLine(Tail(literal), line, 1)
    ELSE AdvancePositionSameLine(Tail(literal), line, column + 1)

\* the for loop of manipulate_states()
RECURSIVE AdvancePosition(_, _, _)
AdvancePosition(literal, line, column) ==
    IF literal = <<>> THEN <<line, column>>
    ELSE IF Head(literal) = "\n"
    THEN AdvancePosition(Tail(literal), line + 1, 1)
    ELSE AdvancePosition(Tail(literal), line, column + 1)

manipulate_states(lx, literal) ==
    IF literal = <<>> THEN [panic |-> FALSE, lexer |-> lx]
    ELSE LET rest == SliceFrom(lx.start, str_len(literal))
             pos == AdvancePosition(literal, lx.line, lx.column)
         IN  IF rest.panic THEN [panic |-> TRUE, lexer |-> lx]
             ELSE [panic |-> FALSE,
                   lexer |-> [lx EXCEPT !.start = rest.str,
                                        !.line = pos[1],
                                        !.column = pos[2]]]

mk_token(lx, meta, literal) ==
    LET res == [lexeme |-> meta, literal |-> literal,
                line |-> lx.line, column |-> lx.column]
        after == manipulate_states(lx, literal)
    IN  [panic |-> after.panic, lexer |-> after.lexer, tok |-> Some(res)]

\* a faulty variant: end of input does not mark the lexer done
mk_eof_not_done(lx) == mk_token(lx, Eof, <<>>)

mk_eof(lx) == mk_token([lx EXCEPT !.done = TRUE], Eof, <<>>)

mk_error(lx, msg, literal) == mk_token([lx EXCEPT !.done = TRUE], Error(msg), literal)

\* a token built from a slice: the slice is taken first, and may panic
mk_token_slice(lx, meta, slice) ==
    IF slice.panic THEN [panic |-> TRUE, lexer |-> lx, tok |-> NoToken]
    ELSE mk_token(lx, meta, slice.str)

mk_error_slice(lx, msg, slice) ==
    IF slice.panic THEN [panic |-> TRUE, lexer |-> lx, tok |-> NoToken]
    ELSE mk_error(lx, msg, slice.str)

skip_whitespaces(lx) ==
    IF lx.done THEN [panic |-> FALSE, lexer |-> lx]
    ELSE LET space_counts == CountWhitespace(lx.start)
         IN  IF space_counts # 0
             THEN LET t == mk_token_slice(lx, Eof, Slice(lx.start, 0, space_counts))
                  IN  [panic |-> t.panic, lexer |-> t.lexer]
             ELSE [panic |-> FALSE, lexer |-> lx]

\* the cap of identifier(): .take(5)
IdentifierCap == 5

identifier(lx) ==
    LET run == CountAsciiAlphabetic(lx.start)
        idx == IF run < IdentifierCap THEN run ELSE IdentifierCap
        id == SliceTo(lx.start, idx)
    IN  IF id.panic THEN [panic |-> TRUE, lexer |-> lx, tok |-> NoToken]
        ELSE IF id.str = <<"t", "r", "u", "e">>
        THEN mk_token(lx, BoolLiteral(TRUE), id.str)
        ELSE IF id.str = <<"f", "a", "l", "s", "e">>
        THEN mk_token(lx, BoolLiteral(FALSE), id.str)
        ELSE IF id.str = <<"n", "u", "l", "l">>
        THEN mk_token(lx, NullLiteral, id.str)
        ELSE mk_error(lx, "Unexpected identifier", id.str)

\* a faulty variant: idx advances by one per scalar instead of by its bytes
RECURSIVE string_loop_chars(_, _, _, _)
string_loop_chars(lx, taken, idx, skip_next) ==
    IF taken >= Len(lx.start)
    THEN mk_error_slice(lx, "Undetermined string literal", SliceTo(lx.start, idx))
    ELSE LET c == lx.start[taken + 1]
             idx2 == idx + 1
         IN  IF c = "\n"
             THEN mk_error_slice(lx, "Unexpected newline", SliceTo(lx.start, idx))
             ELSE IF skip_next
             THEN string_loop_chars(lx, taken + 1, idx2, FALSE)
             ELSE IF c = "\\"
             THEN string_loop_chars(lx, taken + 1, idx2, TRUE)
             ELSE IF c = "\""
             THEN LET inner == Slice(lx.start, 1, idx2 - 1)
                  IN  IF inner.panic
                      THEN [panic |-> TRUE, lexer |-> lx, tok |-> NoToken]
                      ELSE mk_token_slice(lx, StringLiteral(inner.str),
                                          SliceTo(lx.start, idx2))
             ELSE string_loop_chars(lx, taken + 1, idx2, FALSE)

\* the while loop of string(): taken scalars have been read from the
\* iterator, idx is the byte offset, skip_next the escape flag
RECURSIVE string_loop(_, _, _, _)
string_loop(lx, taken, idx, skip_next) ==
    IF taken >= Len(lx.start)
    THEN mk_error_slice(lx, "Undetermined string literal", SliceTo(lx.start, idx))
    ELSE LET c == lx.start[taken + 1]
             idx2 == idx + len_utf8(c)
         IN  IF c = "\n"
             THEN mk_error_slice(lx, "Unexpected newline", SliceTo(lx.start, idx))
             ELSE IF skip_next
             THEN string_loop(lx, taken + 1, idx2, FALSE)
             ELSE IF c = "\\"
             THEN string_loop(lx, taken + 1, idx2, TRUE)
             ELSE IF c = "\""
             THEN IF skip_next
                  THEN string_loop(lx, taken + 1, idx2, FALSE)
                  ELSE LET inner == Slice(lx.start, 1, idx2 - 1)
                       IN  IF inner.panic
                           THEN [panic |-> TRUE, lexer |-> lx, tok |-> NoToken]
                           ELSE mk_token_slice(lx, StringLiteral(inner.str),
                                               SliceTo(lx.start, idx2))
             ELSE string_loop(lx, taken + 1, idx2, FALSE)

string(lx) == string_loop(lx, 1, 1, FALSE)

\* a faulty variant: a '.' that no digit follows ends the number instead of failing
number_lenient(lx) ==
    LET s == lx.start
        minus == s # <<>> /\ s[1] = "-"
        idx0 == IF minus THEN 1 ELSE 0
    IN  IF minus /\ Len(s) < 2
        THEN mk_error_slice(lx, "Unexpected EOF after '-'", SliceTo(s, idx0))
        ELSE IF minus /\ ~is_digit(s[2])
        THEN mk_error_slice(lx, "Expect numeric literal after '-'", SliceTo(s, idx0))
        ELSE LET idx1 == idx0 + CountDigits(s, idx0 + 1)
                 dot == idx1 + 1 < Len(s) /\ s[idx1 + 1] = "." /\ is_digit(s[idx1 + 2])
                 idx3 == IF dot THEN idx1 + 1 + CountDigits(s, idx1 + 2) ELSE idx1
                 literal == SliceTo(s, idx3)
             IN  mk_token_slice(lx, NumberLiteral(parse_f64(literal.str)), literal)

number(lx) ==
    LET s == lx.start
        minus == s # <<>> /\ s[1] = "-"
        idx0 == IF minus THEN 1 ELSE 0
    IN  IF minus /\ Len(s) < 2
        THEN mk_error_slice(lx, "Unexpected EOF after '-'", SliceTo(s, idx0))
        ELSE IF minus /\ ~is_digit(s[2])
        THEN mk_error_slice(lx, "Expect numeric literal after '-'", SliceTo(s, idx0))
        ELSE LET idx1 == idx0 + CountDigits(s, idx0 + 1)
             IN  IF ~(idx1 < Len(s) /\ s[idx1 + 1] = ".")
                 THEN LET literal == SliceTo(s, idx1)
                      IN  mk_token_slice(lx, NumberLiteral(parse_f64(literal.str)),
                                         literal)
                 ELSE LET idx2 == idx1 + 1
                      IN  IF idx2 >= Len(s)
                          THEN mk_error_slice(lx, "Unexpected EOF after '.'",
                                              SliceTo(s, idx2))
                          ELSE IF ~is_digit(s[idx2 + 1])
                          THEN mk_error_slice(lx, "Expect numeric literal after '.'",
                                              SliceTo(s, idx2))
                          ELSE LET idx3 == idx2 + CountDigits(s, idx2 + 1)
                                   literal == SliceTo(s, idx3)
                               IN  mk_token_slice(lx,
                                       NumberLiteral(parse_f64(literal.str)), literal)

\* the match of next_token() on the first scalar after the whitespace
dispatch(lx, c) ==
    IF c = "[" THEN mk_token(lx, LeftSquare, <<"[">>)
    ELSE IF c = "]" THEN mk_token(lx, RightSquare, <<"]">>)
    ELSE IF c = "{" THEN mk_token(lx, LeftBrace, <<"{">>)
    ELSE IF c = "}" THEN mk_token(lx, RightBrace, <<"}">>)
    ELSE IF c = "," THEN mk_token(lx, Comma, <<",">>)
    ELSE IF c = ":" THEN mk_token(lx, Colon, <<":">>)
    ELSE IF is_digit(c) \/ c = "-" THEN number(lx)
    ELSE IF c = "\"" THEN string(lx)
    ELSE IF is_alphabetic(c) THEN identifier(lx)
    ELSE mk_error_slice(lx, "Unexpected character", Slice(lx.start, 0, len_utf8(c)))

next_token(lx) ==
    IF lx.done THEN [panic |-> FALSE, lexer |-> lx, tok |-> NoToken]
    ELSE LET skipped == skip_whitespaces(lx)
         IN  IF skipped.panic
             THEN [panic |-> TRUE, lexer |-> skipped.lexer, tok |-> NoToken]
             ELSE IF skipped.lexer.start = <<>>
             THEN mk_eof(skipped.lexer)
             ELSE dispatch(skipped.lexer, Head(skipped.lexer.start))

(***************************************************************************)
(* Json: the value tree.  An Object holds a HashMap, modelled as the       *)
(* function from its keys to their values.                                 *)
(***************************************************************************)
Json_Null == [type |-> "Null"]
Json_Bool(b) == [type |-> "Bool", val |-> b]
Json_Number(n) == [type |-> "Number", val |-> n]
Json_String(s) == [type |-> "String", val |-> s]
Json_Array(v) == [type |-> "Array", val |-> v]
Json_Object(m) == [type |-> "Object", val |-> m]

\* a faulty variant: a key that is already there keeps its value
insert_if_absent(m, k, v) ==
    [x \in (DOMAIN m) \cup {k} |-> IF x \in DOMAIN m THEN m[x] ELSE v]

\* HashMap::insert
insert(m, k, v) == [x \in (DOMAIN m) \cup {k} |-> IF x = k THEN v ELSE m[x]]

(***************************************************************************)
(* Parser.  Its state p is [lexer, peeked, log, feed, at]: the Lexer it    *)
(* owns, the slot of Peekable (<<>> when nothing is buffered, else         *)
(* <<item>> with item the Option the lexer returned), and the log of what  *)
(* next_token() returned to it.  The lexer is read through feed, the       *)
(* results of its successive next_token() calls, of which at have been     *)
(* made.  Every method returns [kind, p, ...] with kind "ok" (and tok or   *)
(* val), "err" (and err) or "panic" (and why).                             *)
(***************************************************************************)
\* what the successive next_token() calls on lx return, up to the first
\* call that returns None or panics; a done lexer returns None again and
\* stays as it is, so every later call returns what the last one did
RECURSIVE Feed(_)
Feed(lx) ==
    LET r == next_token(lx)
    IN  IF r.panic \/ r.tok = NoToken THEN <<r>> ELSE <<r>> \o Feed(r.lexer)

Parser_new(lx) ==
    [lexer |-> lx, peeked |-> <<>>, log |-> <<>>, feed |-> Feed(lx), at |-> 0]

\* Lexer as Iterator: next() is next_token()
iter_next(p) ==
    LET n == IF p.at < Len(p.feed) THEN p.at + 1 ELSE Len(p.feed)
        r == p.feed[n]
    IN  [panic |-> r.panic, item |-> r.tok,
         p |-> [p EXCEPT !.lexer = r.lexer,
                         !.at = n,
                         !.log = IF r.panic THEN @ ELSE Append(@, r.tok)]]

\* Peekable::next
Peekable_next(p) ==
    IF p.peeked # <<>>
    THEN [panic |-> FALSE, item |-> p.peeked[1], p |-> [p EXCEPT !.peeked = <<>>]]
    ELSE iter_next(p)

\* Peekable::peek
Peekable_peek(p) ==
    IF p.peeked # <<>>
    THEN [panic |-> FALSE, item |-> p.peeked[1], p |-> p]
    ELSE LET r == iter_next(p)
         IN  IF r.panic THEN r
             ELSE [panic |-> FALSE, item |-> r.item,
                   p |-> [r.p EXCEPT !.peeked = <<r.item>>]]

Unwrap(r) ==
    IF r.panic THEN [kind |-> "panic", why |-> "lexer", p |-> r.p]
    ELSE IF r.item = NoToken THEN [kind |-> "panic", why |-> "Impossible", p |-> r.p]
    ELSE [kind |-> "ok", tok |-> r.item[1], p |-> r.p]

advance_unchecked(p) == Unwrap(Peekable_next(p))

peek_unchecked(p) == Unwrap(Peekable_peek(p))

\* a faulty variant: the error carries the position where the token ends
MkErrorAtEnd(msg, tok) ==
    [msg |-> msg, line |-> tok.line, column |-> tok.column + Len(tok.literal)]

\* Error { msg, line, column } built from a token's line and column
MkError(msg, tok) == [msg |-> msg, line |-> tok.line, column |-> tok.column]

\* the ? operator: an Err (or a panic) is returned at once, else the
\* evaluation goes on with the Ok value
Try(r, Continue(_)) == IF r.kind # "ok" THEN r ELSE Continue(r)

Mismatch(expect_lexeme, tok) ==
    "Expect " \o meta_type(expect_lexeme) \o ", got " \o meta_type(tok.lexeme)

\* a faulty variant: a lexical Error token is reported like any other mismatch
consume_no_lexical(p, expect_lexeme) ==
    Try(peek_unchecked(p), LAMBDA pk :
        IF meta_type(pk.tok.lexeme) = meta_type(expect_lexeme)
        THEN advance_unchecked(pk.p)
        ELSE [kind |-> "err", p |-> pk.p,
              err |-> MkError(Mismatch(expect_lexeme, pk.tok), pk.tok)])

\* a faulty variant: a token that does not match is taken out of the stream
consume_drops_peeked(p, expect_lexeme) ==
    Try(peek_unchecked(p), LAMBDA pk :
        IF meta_type(pk.tok.lexeme) = meta_type(expect_lexeme)
        THEN advance_unchecked(pk.p)
        ELSE IF pk.tok.lexeme.tag = "Error"
        THEN [kind |-> "err", p |-> [pk.p EXCEPT !.peeked = <<>>],
              err |-> MkError(pk.tok.lexeme.val, pk.tok)]
        ELSE [kind |-> "err", p |-> [pk.p EXCEPT !.peeked = <<>>],
              err |-> MkError(Mismatch(expect_lexeme, pk.tok), pk.tok)])

consume(p, expect_lexeme) ==
    Try(peek_unchecked(p), LAMBDA pk :
        IF meta_type(pk.tok.lexeme) = meta_type(expect_lexeme)
        THEN advance_unchecked(pk.p)
        ELSE IF pk.tok.lexeme.tag = "Error"
        THEN [kind |-> "err", p |-> pk.p, err |-> MkError(pk.tok.lexeme.val, pk.tok)]
        ELSE [kind |-> "err", p |-> pk.p,
              err |-> MkError(Mismatch(expect_lexeme, pk.tok), pk.tok)])

\* the match of primary() on the token it advanced past
leaf(p, tok) ==
    IF tok.lexeme.tag = "NullLiteral"
    THEN [kind |-> "ok", p |-> p, val |-> Json_Null]
    ELSE IF tok.lexeme.tag = "BoolLiteral"
    THEN [kind |-> "ok", p |-> p, val |-> Json_Bool(tok.lexeme.val)]
    ELSE IF tok.lexeme.tag = "StringLiteral"
    THEN [kind |-> "ok", p |-> p, val |-> Json_String(tok.lexeme.val)]
    ELSE IF tok.lexeme.tag = "NumberLiteral"
    THEN [kind |-> "ok", p |-> p, val |-> Json_Number(tok.lexeme.val)]
    ELSE IF tok.lexeme.tag = "Error"
    THEN [kind |-> "err", p |-> p, err |-> MkError(tok.lexeme.val, tok)]
    ELSE [kind |-> "err", p |-> p,
          err |-> MkError("Expect Primary, got " \o meta_type(tok.lexeme), tok)]

\* a faulty variant: the token is looked at and left in the stream
primary_keeps_token(p) == Try(peek_unchecked(p), LAMBDA pk : leaf(pk.p, pk.tok))

primary(p) == Try(advance_unchecked(p), LAMBDA adv : leaf(adv.p, adv.tok))

RECURSIVE json(_), read_kv(_), object(_), object_loop(_, _), array(_), array_loop(_, _)

json(p) ==
    Try(peek_unchecked(p), LAMBDA pk :
        IF pk.tok.lexeme = LeftBrace THEN object(pk.p)
        ELSE IF pk.tok.lexeme = LeftSquare THEN array(pk.p)
        ELSE primary(pk.p))

\* returns [kind |-> "ok", p, key, val]
read_kv(p) ==
    Try(consume(p, StringLiteral(<<>>)), LAMBDA k :
        IF k.tok.lexeme.tag # "StringLiteral"
        THEN [kind |-> "panic", why |-> "Impossible", p |-> k.p]
        ELSE Try(consume(k.p, Colon), LAMBDA c :
             Try(json(c.p), LAMBDA v :
                 [kind |-> "ok", p |-> v.p, key |-> k.tok.lexeme.val, val |-> v.val])))

\* the while loop of object() and the consume after it
object_loop(p, result) ==
    Try(peek_unchecked(p), LAMBDA pk :
        IF pk.tok.lexeme = Comma
        THEN Try(advance_unchecked(pk.p), LAMBDA adv :
             Try(read_kv(adv.p), LAMBDA kv :
                 object_loop(kv.p, insert(result, kv.key, kv.val))))
        ELSE Try(consume(pk.p, RightBrace), LAMBDA close :
                 [kind |-> "ok", p |-> close.p, val |-> Json_Object(result)]))

object(p) ==
    Try(consume(p, LeftBrace), LAMBDA open :
    Try(peek_unchecked(open.p), LAMBDA pk :
        IF pk.tok.lexeme = RightBrace
        THEN Try(consume(pk.p, RightBrace), LAMBDA close :
                 [kind |-> "ok", p |-> close.p, val |-> Json_Object(<<>>)])
        ELSE Try(read_kv(pk.p), LAMBDA kv :
                 object_loop(kv.p, insert(<<>>, kv.key, kv.val)))))

\* the while loop of array() and the consume after it
array_loop(p, result) ==
    Try(peek_unchecked(p), LAMBDA pk :
        IF pk.tok.lexeme = Comma
        THEN Try(advance_unchecked(pk.p), LAMBDA adv :
             Try(json(adv.p), LAMBDA v :
                 array_loop(v.p, Append(result, v.val))))
        ELSE Try(consume(pk.p, RightSquare), LAMBDA close :
                 [kind |-> "ok", p |-> close.p, val |-> Json_Array(result)]))

\* a faulty variant: an array needs a first element
array_needs_element(p) ==
    Try(consume(p, LeftSquare), LAMBDA open :
    Try(json(open.p), LAMBDA v : array_loop(v.p, <<v.val>>)))

array(p) ==
    Try(consume(p, LeftSquare), LAMBDA open :
    Try(peek_unchecked(open.p), LAMBDA pk :
        IF pk.tok.lexeme = RightSquare
        THEN Try(consume(pk.p, RightSquare), LAMBDA close :
                 [kind |-> "ok", p |-> close.p, val |-> Json_Array(<<>>)])
        ELSE Try(json(pk.p), LAMBDA v : array_loop(v.p, <<v.val>>))))

\* a faulty variant: the value is returned without the end of input being required
parse_no_eof(p) == json(p)

\* a faulty variant: the end of input is asked for a second time
parse_reads_on(p) ==
    Try(json(p), LAMBDA res :
    Try(consume(res.p, Eof), LAMBDA end :
    Try(consume(end.p, Eof), LAMBDA again :
        [kind |-> "ok", p |-> again.p, val |-> res.val])))

parse(p) ==
    Try(json(p), LAMBDA res :
    Try(consume(res.p, Eof), LAMBDA end :
        [kind |-> "ok", p |-> end.p, val |-> res.val]))

(***************************************************************************)
(* The input sets.  A text is a concatenation of at most n pieces of a     *)
(* lexicon; a piece is a sequence of scalars.                              *)
(***************************************************************************)
RECURSIVE Concat(_)
Concat(ps) == IF ps = <<>> THEN <<>> ELSE Head(ps) \o Concat(Tail(ps))

Texts(lexicon, n) ==
    { Concat(ps) : ps \in UNION { [1..k -> lexicon] : k \in 0..n } }

Chars(alphabet) == { <<c>> : c \in alphabet }

KwTrue == <<"t", "r", "u", "e">>
KwFalse == <<"f", "a", "l", "s", "e">>
KwNull == <<"n", "u", "l", "l">>

GeneralLexicon ==
    Chars({"[", "}", ":", "1", "-", ".", "\"", "\\", "\n", " ",
           "nbsp", "y", "cjk", "#"})
        \cup {KwTrue, KwFalse}

StringLexicon == Chars({"\"", "\\", "\n", "a", "cjk", " "})

NumberLexicon == Chars({"-", ".", "0", "1", "2", "y", " "})

IdentLexicon ==
    Chars({"t", "e", "y", "eacute", " ", "1"}) \cup {KwTrue, KwFalse, KwNull}

WsLexicon == Chars({" ", "\n", "\t", "nbsp", "idsp", "1", "["})

(***************************************************************************)
(* The state machine.  tokens is the sequence of results the next_token()  *)
(* calls returned so far, each an Option: NoToken or Some(token).          *)
(***************************************************************************)
InitWith(texts) ==
    /\ source \in texts
    /\ lexer = Lexer_new(source)
    /\ peeked = <<>>
    /\ tokens = <<>>
    /\ results = <<>>
    /\ panicked = FALSE

NoneCount == Cardinality({i \in DOMAIN tokens : tokens[i] = NoToken})

\* one call of Lexer::next_token by the owner of the lexer
NextToken ==
    /\ ~panicked
    /\ NoneCount < MaxNone
    /\ LET r == next_token(lexer)
       IN  /\ panicked' = r.panic
           /\ lexer' = r.lexer
           /\ tokens' = IF r.panic THEN tokens ELSE Append(tokens, r.tok)
    /\ UNCHANGED <<source, peeked, results>>

Init == InitWith(Texts(GeneralLexicon, MaxPieces))

NextLexer == NextToken

Spec == Init /\ [][NextLexer]_vars

InitString == InitWith(Texts(StringLexicon, MaxStringChars))

SpecString == InitString /\ [][NextLexer]_vars

InitNumber == InitWith(Texts(NumberLexicon, MaxNumberChars))

SpecNumber == InitNumber /\ [][NextLexer]_vars

InitIdent == InitWith(Texts(IdentLexicon, MaxIdentPieces))

SpecIdent == InitIdent /\ [][NextLexer]_vars

InitWs == InitWith(Texts(WsLexicon, MaxWsChars))

SpecWs == InitWs /\ [][NextLexer]_vars

(***************************************************************************)
(* The parser's state machine: the lexer is moved into a Parser at         *)
(* construction, and parse() is called on it.  results holds what the      *)
(* calls returned: [kind |-> "ok", val], [kind |-> "err", err] or, for a   *)
(* call that panicked, [kind |-> "panic", why].                            *)
(***************************************************************************)
ParserLexicon ==
    Chars({"{", "}", "[", "]", ",", ":"})
        \cup {<<"\"", "a", "\"">>, <<"1", " ">>}

Returned(r) ==
    IF r.kind = "ok" THEN [kind |-> "ok", val |-> r.val]
    ELSE IF r.kind = "err" THEN [kind |-> "err", err |-> r.err]
    ELSE [kind |-> "panic", why |-> r.why]

\* one call of Parser::parse
Parse ==
    /\ ~panicked
    /\ Len(results) < MaxParses
    /\ LET r == parse([Parser_new(lexer) EXCEPT !.peeked = peeked])
       IN  /\ lexer' = r.p.lexer
           /\ peeked' = r.p.peeked
           /\ tokens' = tokens \o r.p.log
           /\ panicked' = (r.kind = "panic")
           /\ results' = Append(results, Returned(r))
    /\ UNCHANGED source

\* a character no token starts with, at each place the parser reads a token
LexicalErrors ==
    { <<"#">>,
      <<"1", " ", "#">>,
      <<"[", "#">>,
      <<"[", "1", "#", "]">>,
      <<"[", "1", ",", "#", "]">>,
      <<"{", "#", "}">>,
      <<"{", "\"", "a", "\"", "#", "1", "}">>,
      <<"{", "\"", "a", "\"", ":", "#", "}">>,
      <<"{", "\"", "a", "\"", ":", "1", "#", "}">>,
      <<"{", "\"", "a", "\"", ":", "1", ",", "#">>,
      <<"[", "]", "#">>,
      <<"#", "1">> }

\* longer documents, well formed and not
Documents ==
    { <<"{", "\"", "a", "\"", ":", "1", " ", ",", "\"", "a", "\"", ":", "[", "1", ",",
        "2", "]", "}">>,
      <<"{", "\"", "a", "\"", ":", "1", ",", "}">>,
      <<"[", "{", "}", ",", "[", "]", ",", "t", "r", "u", "e", "]", "\n">>,
      <<"[", "1", ",", "\n", " ", "n", "u", "l", "l", " ", "f", "a", "l", "s", "e", "]">>,
      <<"{", "\"", "a", "\"", ":", "[", "1", ",", "\n", "#", "]", "}">>,
      <<"t", "r", "u", "e", " ", "t", "r", "u", "e">> }
        \cup LexicalErrors

InitParser == InitWith(Texts(ParserLexicon, MaxParserPieces) \cup Documents)

NextParser == Parse

SpecParser == InitParser /\ [][NextParser]_vars

\* well-formed objects of at most MaxPairs pairs, keys and values repeating
ObjectKeys == {"a", "b"}

ObjectValues == {<<"1">>, <<"2">>, <<"\"", "a", "\"">>}

PairTexts == { <<"\"", k, "\"", ":">> \o v : k \in ObjectKeys, v \in ObjectValues }

RECURSIVE JoinPairs(_)
JoinPairs(ps) ==
    IF ps = <<>> THEN <<>>
    ELSE IF Len(ps) = 1 THEN ps[1]
    ELSE ps[1] \o <<",">> \o JoinPairs(Tail(ps))

ObjectTexts ==
    { <<"{">> \o JoinPairs(ps) \o <<"}">> :
        ps \in UNION { [1..n -> PairTexts] : n \in 0..MaxPairs } }

InitObject == InitWith(ObjectTexts)

SpecObject == InitObject /\ [][NextParser]_vars

\* arrays of at most MaxElements elements, each also with a ',' put before
\* its closing bracket, and the empty object with and without one
ElementTexts ==
    { <<"1">>, <<"2">>, <<"\"", "a", "\"">>, <<"[", "]">>, <<"[", "2", "]">>,
      <<"{", "}">> }

RECURSIVE JoinElements(_)
JoinElements(es) ==
    IF es = <<>> THEN <<>>
    ELSE IF Len(es) = 1 THEN es[1]
    ELSE es[1] \o <<",">> \o JoinElements(Tail(es))

ArrayTexts ==
    { <<"[">> \o JoinElements(es) \o <<"]">> :
        es \in UNION { [1..n -> ElementTexts] : n \in 0..MaxElements } }

TrailingComma(texts) ==
    { SubSeq(t, 1, Len(t) - 1) \o <<",", t[Len(t)]>> : t \in texts }

EmptyObject == <<"{", "}">>

OneEntryObject == <<"{", "\"", "a", "\"", ":", "1", "}">>

InitArray ==
    InitWith(ArrayTexts \cup TrailingComma(ArrayTexts)
                 \cup {EmptyObject, OneEntryObject}
                 \cup TrailingComma({EmptyObject, OneEntryObject}))

SpecArray == InitArray /\ [][NextParser]_vars

\* calls of Parser::consume alone, on a parser over a short text
ConsumeLexicon ==
    Chars({"{", ":", "#"}) \cup {<<"\"", "a", "\"">>, KwFalse, <<"1", " ">>}

Expected ==
    {LeftBrace, Colon, StringLiteral(<<>>), BoolLiteral(TRUE), Eof, Error("")}

ConsumeReturned(r) ==
    IF r.kind = "ok" THEN [kind |-> "ok", tok |-> r.tok]
    ELSE IF r.kind = "err" THEN [kind |-> "err", err |-> r.err]
    ELSE [kind |-> "panic", why |-> r.why]

\* one call of Parser::consume; results logs the call and what it returned
Consume ==
    /\ ~panicked
    /\ Len(results) < MaxConsumes
    /\ \E expect_lexeme \in Expected :
           LET r == consume([Parser_new(lexer) EXCEPT !.peeked = peeked],
                            expect_lexeme)
           IN  /\ lexer' = r.p.lexer
               /\ peeked' = r.p.peeked
               /\ tokens' = tokens \o r.p.log
               /\ panicked' = (r.kind = "panic")
               /\ results' = Append(results, [call |-> expect_lexeme,
                                              ret |-> ConsumeReturned(r)])
    /\ UNCHANGED source

InitConsume == InitWith(Texts(ConsumeLexicon, MaxConsumePieces))

NextConsume == Consume

SpecConsume == InitConsume /\ [][NextConsume]_vars

\* calls of Parser::primary alone, on a parser over a short text
PrimaryLexicon ==
    Chars({"{", ",", "]", "#"})
        \cup {KwNull, KwTrue, KwFalse, <<"\"", "a", "\"">>, <<"1", " ">>}

\* one call of Parser::primary
Primary ==
    /\ ~panicked
    /\ Len(results) < MaxPrimaries
    /\ LET r == primary([Parser_new(lexer) EXCEPT !.peeked = peeked])
       IN  /\ lexer' = r.p.lexer
           /\ peeked' = r.p.peeked
           /\ tokens' = tokens \o r.p.log
           /\ panicked' = (r.kind = "panic")
           /\ results' = Append(results, Returned(r))
    /\ UNCHANGED source

InitPrimary == InitWith(Texts(PrimaryLexicon, MaxPrimaryPieces))

NextPrimary == Primary

SpecPrimary == InitPrimary /\ [][NextPrimary]_vars

\* the owner of a Lexer pulls tokens from it, then moves it into a Parser
\* and calls parse(); the texts hold whitespace of one and of more bytes
PullLexicon ==
    Chars({"[", "]", ",", "1", " ", "\n", "nbsp"}) \cup {<<"\"", "a", "\"">>}

\* next_token() called while the Lexer is not yet owned by a Parser
NextTokenByOwner == results = <<>> /\ NextToken

InitPulls == InitWith(Texts(PullLexicon, MaxPullPieces))

NextPulls == NextTokenByOwner \/ Parse

SpecPulls == InitPulls /\ [][NextPulls]_vars

(***************************************************************************)
(* Reading the state: the token the last next_token() call returned, and   *)
(* where it lies in the source.  The lexer's start is a suffix of the      *)
(* source, so the scalars consumed so far are those before Consumed.       *)
(***************************************************************************)
Last(s) == s[Len(s)]

Returns == { i \in DOMAIN tokens : tokens[i] # NoToken }

JustReturned == ~panicked /\ tokens # <<>> /\ Last(tokens) # NoToken

LastTok == Last(tokens)[1]

Consumed == Len(source) - Len(lexer.start)

TokStart == Consumed - Len(LastTok.literal)

\* the input the scan of the last token started from
Rest == SubSeq(source, TokStart + 1, Len(source))

IsTerminal(opt) == opt # NoToken /\ opt[1].lexeme.tag \in {"Eof", "Error"}

Terminals == { i \in DOMAIN tokens : IsTerminal(tokens[i]) }

Newlines(off) == { i \in 1..off : source[i] = "\n" }

LineAt(off) == 1 + Cardinality(Newlines(off))

ColumnAt(off) ==
    LET nl == Newlines(off)
    IN  IF nl = {} THEN 1 + off
        ELSE 1 + off - (CHOOSE i \in nl : \A j \in nl : j <= i)

(***************************************************************************)
(* C3: at most one terminal token (Eof or Error) is returned; done is set  *)
(* exactly by the call that returns it; every result before it is a        *)
(* non-terminal token and every result after it is None; and once done, a  *)
(* next_token() call returns None and leaves start, line and column as     *)
(* they were.                                                              *)
(***************************************************************************)
C3_DoneState ==
    /\ Cardinality(Terminals) <= 1
    /\ ~panicked => (lexer.done <=> Terminals # {})
    /\ \A i \in DOMAIN tokens :
           /\ tokens[i] = NoToken => \E j \in Terminals : j < i
           /\ \A j \in Terminals : j < i => tokens[i] = NoToken

C3_DoneStep ==
    lexer.done => /\ lexer' = lexer
                  /\ ~panicked'
                  /\ tokens' = Append(tokens, NoToken)

C3_TerminalOnce == [](C3_DoneState) /\ [][C3_DoneStep]_vars

\* an input without lexical errors: a token, then Eof, then None twice
C3_Witness ==
    /\ Len(tokens) = 4
    /\ tokens[1] # NoToken /\ tokens[1][1].lexeme.tag = "NumberLiteral"
    /\ tokens[2] # NoToken /\ tokens[2][1].lexeme.tag = "Eof"
    /\ tokens[3] = NoToken /\ tokens[4] = NoToken
    /\ lexer.done

(***************************************************************************)
(* C5: the token a next_token() call returns carries the line and column   *)
(* of the first scalar of its literal: line is 1 + the number of newlines  *)
(* before it, column is 1 + the number of scalars between the last         *)
(* newline before it (or the start of the input) and it; its literal is    *)
(* the source slice that starts there; and Eof lies just past the last     *)
(* scalar of the input.                                                    *)
(***************************************************************************)
C5_TokenPosition ==
    JustReturned =>
        /\ TokStart >= 0
        /\ LastTok.literal = SubSeq(source, TokStart + 1, Consumed)
        /\ LastTok.line = LineAt(TokStart)
        /\ LastTok.column = ColumnAt(TokStart)
        /\ LastTok.lexeme.tag = "Eof" => TokStart = Len(source)

\* a token on the second line, behind a scalar of more than one byte
C5_Witness ==
    /\ JustReturned
    /\ LastTok.line = 2
    /\ LastTok.column = 2
    /\ LastTok.lexeme.tag = "Error"
    /\ source[TokStart] = "nbsp"

(***************************************************************************)
(* C6: next_token() skips the whole run of whitespace at the front of the  *)
(* remaining input, whatever the byte length of its scalars: it does not   *)
(* fail, and the token it returns begins at the first scalar that is not   *)
(* whitespace, or is Eof when none remains.                                *)
(***************************************************************************)
C6_SkipsWholeRun ==
    /\ ~panicked
    /\ JustReturned =>
           /\ TokStart < Len(source) => ~is_whitespace(source[TokStart + 1])
           /\ TokStart = Len(source) => LastTok.lexeme.tag = "Eof"

(***************************************************************************)
(* C7: on a digit or '-', the scan returns a NumberLiteral whose literal   *)
(* is the longest prefix of the form -?DIGIT+(.DIGIT+)?, and returns an    *)
(* Error token, marking the lexer done, exactly when a leading '-' is not  *)
(* followed by a digit or the '.' after the integer digits is not followed *)
(* by a digit (the end of input included); "-" alone is an Error token at  *)
(* line 1, column 1 with literal "-".                                      *)
(***************************************************************************)
AllDigits(s) == s # <<>> /\ \A i \in 1..Len(s) : s[i] \in Digits

IsInteger(s) ==
    AllDigits(IF s # <<>> /\ s[1] = "-" THEN Tail(s) ELSE s)

IsNumber(s) ==
    \/ IsInteger(s)
    \/ \E d \in 2..(Len(s) - 1) :
           /\ s[d] = "."
           /\ IsInteger(SubSeq(s, 1, d - 1))
           /\ AllDigits(SubSeq(s, d + 1, Len(s)))

LongestNumber(s) ==
    LET ks == { k \in 1..Len(s) : IsNumber(SubSeq(s, 1, k)) }
    IN  IF ks = {} THEN <<>>
        ELSE SubSeq(s, 1, CHOOSE k \in ks : \A j \in ks : j <= k)

DanglingMinus(s) == s[1] = "-" /\ (Len(s) < 2 \/ s[2] \notin Digits)

DanglingDot(s) ==
    \E k \in 1..(Len(s) - 1) :
        /\ IsInteger(SubSeq(s, 1, k))
        /\ s[k + 1] = "."
        /\ (k + 2 > Len(s) \/ s[k + 2] \notin Digits)

AtNumber == JustReturned /\ Rest # <<>> /\ (Rest[1] \in Digits \/ Rest[1] = "-")

C7_NumberScan ==
    AtNumber =>
        /\ LastTok.lexeme.tag = "Error" <=> (DanglingMinus(Rest) \/ DanglingDot(Rest))
        /\ LastTok.lexeme.tag = "Error" => lexer.done
        /\ LastTok.lexeme.tag # "Error" =>
               /\ LastTok.lexeme.tag = "NumberLiteral"
               /\ LastTok.literal = LongestNumber(Rest)
               /\ ~lexer.done
        /\ source = <<"-">> =>
               /\ LastTok.lexeme.tag = "Error"
               /\ LastTok.line = 1 /\ LastTok.column = 1
               /\ LastTok.literal = <<"-">>

\* a '.' that no digit follows, behind a sign and a digit
C7_Witness ==
    /\ AtNumber
    /\ Rest = <<"-", "1", ".", "y">>
    /\ LastTok.lexeme = Error("Expect numeric literal after '.'")
    /\ lexer.done

(***************************************************************************)
(* C8: on an alphabetic scalar, the token is BoolLiteral(true),            *)
(* BoolLiteral(false) or NullLiteral only if the whole alphabetic run      *)
(* that starts there is true, false or null; for any other run it is the   *)
(* Error token 'Unexpected identifier' and the lexer is done.              *)
(***************************************************************************)
RECURSIVE AlphabeticRun(_)
AlphabeticRun(s) ==
    IF s # <<>> /\ is_alphabetic(Head(s)) THEN <<Head(s)>> \o AlphabeticRun(Tail(s))
    ELSE <<>>

AtIdentifier == JustReturned /\ Rest # <<>> /\ is_alphabetic(Rest[1])

C8_KeywordIsWholeRun ==
    AtIdentifier =>
        LET run == AlphabeticRun(Rest)
            lexeme == LastTok.lexeme
        IN  /\ (lexeme.tag = "BoolLiteral" /\ lexeme.val) => run = KwTrue
            /\ (lexeme.tag = "BoolLiteral" /\ ~lexeme.val) => run = KwFalse
            /\ lexeme.tag = "NullLiteral" => run = KwNull
            /\ run \notin {KwTrue, KwFalse, KwNull} =>
                   /\ lexeme.tag = "Error"
                   /\ lexeme.val = "Unexpected identifier"
                   /\ lexer.done

(***************************************************************************)
(* C9: in a string scan the scalar after an unescaped backslash is         *)
(* consumed whatever it is, a quote, a backslash and a newline included,   *)
(* so the token ends at the first quote that is not escaped: it is a       *)
(* StringLiteral of the raw slice between the quotes, and its literal      *)
(* holds both quotes.                                                      *)
(***************************************************************************)
\* the index of the first unescaped quote of s from i on, 0 when the input
\* ends before one, -1 when an unescaped newline comes before one
RECURSIVE ClosingQuote(_, _)
ClosingQuote(s, i) ==
    IF i > Len(s) THEN 0
    ELSE IF s[i] = "\\" THEN ClosingQuote(s, i + 2)
    ELSE IF s[i] = "\n" THEN -1
    ELSE IF s[i] = "\"" THEN i
    ELSE ClosingQuote(s, i + 1)

AtString == JustReturned /\ Rest # <<>> /\ Rest[1] = "\""

C9_EscapeConsumesAnyScalar ==
    (AtString /\ ClosingQuote(Rest, 2) > 0) =>
        LET close == ClosingQuote(Rest, 2)
        IN  /\ LastTok.lexeme.tag = "StringLiteral"
            /\ LastTok.lexeme.val = SubSeq(Rest, 2, close - 1)
            /\ LastTok.literal = SubSeq(Rest, 1, close)

(***************************************************************************)
(* C10: a string scan that meets the end of input before an unescaped      *)
(* closing quote returns an Error token at the opening quote and marks the *)
(* lexer done; it returns no StringLiteral and does not panic on a slice,  *)
(* also when the content has scalars of several bytes or the input ends    *)
(* right after a backslash.                                                *)
(***************************************************************************)
\* whether an unescaped quote closes the string of s that opens at s[1]
RECURSIVE Unterminated(_, _)
Unterminated(s, i) ==
    IF i > Len(s) THEN TRUE
    ELSE IF s[i] = "\\" THEN Unterminated(s, i + 2)
    ELSE IF s[i] = "\"" THEN FALSE
    ELSE Unterminated(s, i + 1)

C10_UnterminatedString ==
    /\ panicked => ~(lexer.start # <<>> /\ Head(lexer.start) = "\"")
    /\ (AtString /\ Unterminated(Rest, 2)) =>
           /\ LastTok.lexeme.tag = "Error"
           /\ LastTok.line = LineAt(TokStart)
           /\ LastTok.column = ColumnAt(TokStart)
           /\ source[TokStart + 1] = "\""
           /\ lexer.done
           /\ (\A i \in 1..Len(Rest) : Rest[i] # "\n") =>
                  /\ LastTok.lexeme.val = "Undetermined string literal"
                  /\ LastTok.literal = Rest
                  /\ lexer.start = <<>>

\* the input ends right after a backslash, behind a scalar of three bytes
C10_Witness ==
    /\ AtString
    /\ Rest = <<"\"", "cjk", "\\">>
    /\ TokStart = 1
    /\ LastTok.lexeme = Error("Undetermined string literal")
    /\ lexer.done

(***************************************************************************)
(* The grammar of parser.rs, as a stack automaton over token categories:   *)
(*   Parse = Json EOF,  Json = Object | Array | Primary,                   *)
(*   Object = '{' ( STRING ':' Json (',' STRING ':' Json)* )? '}',         *)
(*   Array = '[' ( Json (',' Json)* )? ']'.                                *)
(* Its state is the stack of open brackets and what may come next; it is   *)
(* dead as soon as the tokens read cannot be extended to Json EOF.         *)
(***************************************************************************)
RECURSIVE TokenStream(_)
TokenStream(lx) ==
    LET r == next_token(lx)
    IN  IF r.panic \/ r.tok = NoToken THEN <<>>
        ELSE <<r.tok[1]>> \o TokenStream(r.lexer)

Stream == TokenStream(Lexer_new(source))

PrimaryTags == {"NullLiteral", "BoolLiteral", "StringLiteral", "NumberLiteral"}

Dead == [stack |-> <<>>, mode |-> "dead"]

Closed(stack) == [stack |-> SubSeq(stack, 1, Len(stack) - 1), mode |-> "after"]

ValueStep(st, tag) ==
    IF tag \in PrimaryTags THEN [st EXCEPT !.mode = "after"]
    ELSE IF tag = "LeftBrace"
    THEN [stack |-> Append(st.stack, "Object"), mode |-> "keyOrClose"]
    ELSE IF tag = "LeftSquare"
    THEN [stack |-> Append(st.stack, "Array"), mode |-> "valueOrClose"]
    ELSE Dead

GrammarStep(st, tag) ==
    CASE st.mode = "value" -> ValueStep(st, tag)
      [] st.mode = "valueOrClose" ->
             IF tag = "RightSquare" THEN Closed(st.stack) ELSE ValueStep(st, tag)
      [] st.mode = "keyOrClose" ->
             IF tag = "RightBrace" THEN Closed(st.stack)
             ELSE IF tag = "StringLiteral" THEN [st EXCEPT !.mode = "colon"]
             ELSE Dead
      [] st.mode = "key" ->
             IF tag = "StringLiteral" THEN [st EXCEPT !.mode = "colon"] ELSE Dead
      [] st.mode = "colon" ->
             IF tag = "Colon" THEN [st EXCEPT !.mode = "value"] ELSE Dead
      [] st.mode = "after" ->
             IF st.stack = <<>>
             THEN IF tag = "Eof" THEN [st EXCEPT !.mode = "end"] ELSE Dead
             ELSE IF Last(st.stack) = "Array"
             THEN IF tag = "Comma" THEN [st EXCEPT !.mode = "value"]
                  ELSE IF tag = "RightSquare" THEN Closed(st.stack)
                  ELSE Dead
             ELSE IF tag = "Comma" THEN [st EXCEPT !.mode = "key"]
                  ELSE IF tag = "RightBrace" THEN Closed(st.stack)
                  ELSE Dead
      [] OTHER -> Dead

\* the automaton's state after each token of ts
RECURSIVE GrammarRun(_, _)
GrammarRun(ts, k) ==
    IF k = 0 THEN <<>>
    ELSE LET before == GrammarRun(ts, k - 1)
             st == IF k = 1 THEN [stack |-> <<>>, mode |-> "value"] ELSE before[k - 1]
         IN  Append(before, GrammarStep(st, ts[k].lexeme.tag))

Accepted(run) == run # <<>> /\ Last(run).mode = "end"

\* the first k tokens are one complete value
CompleteValue(run, k) == run[k] = [stack |-> <<>>, mode |-> "after"]

\* the indexes at which the tokens read so far cannot be extended any more
DeadAt(run) == { k \in 1..Len(run) : run[k].mode = "dead" }

FirstDead(run) == CHOOSE k \in DeadAt(run) : \A j \in DeadAt(run) : k <= j

FirstParse == results # <<>>

(***************************************************************************)
(* C1: parse() on a fresh Parser returns Ok exactly when the token stream  *)
(* is one complete value followed at once by Eof; when another token       *)
(* follows a complete value, it returns an error at that token and no      *)
(* value, the error being 'Expect EOF, got <category>' unless the token is *)
(* a lexical Error token.                                                  *)
(***************************************************************************)
C1_OkIffValueThenEof ==
    FirstParse =>
        LET ts == Stream
            run == GrammarRun(ts, Len(ts))
        IN  /\ results[1].kind = "ok" <=> Accepted(run)
            /\ \A k \in 1..(Len(ts) - 1) :
                   (CompleteValue(run, k) /\ ts[k + 1].lexeme.tag # "Eof") =>
                       /\ results[1].kind = "err"
                       /\ results[1].err.line = ts[k + 1].line
                       /\ results[1].err.column = ts[k + 1].column
                       /\ ts[k + 1].lexeme.tag # "Error" =>
                              results[1].err.msg =
                                  "Expect EOF, got " \o meta_type(ts[k + 1].lexeme)

\* a closed array, then a second value
C1_Witness ==
    /\ FirstParse
    /\ source = <<"[", "1", " ", "]", "1", " ">>
    /\ results[1] = [kind |-> "err",
                     err |-> [msg |-> "Expect EOF, got number", line |-> 1,
                              column |-> 5]]

(***************************************************************************)
(* C2: when parse() on a fresh Parser fails, the line and column of its    *)
(* error are those of the first token at which the tokens read so far      *)
(* cannot be extended to a value followed by Eof; it fails exactly when    *)
(* there is such a token.                                                  *)
(***************************************************************************)
C2_ErrorAtFirstBadToken ==
    FirstParse =>
        LET ts == Stream
            run == GrammarRun(ts, Len(ts))
        IN  /\ results[1].kind = "err" <=> DeadAt(run) # {}
            /\ results[1].kind = "err" =>
                   /\ results[1].err.line = ts[FirstDead(run)].line
                   /\ results[1].err.column = ts[FirstDead(run)].column

\* a comma before the closing brace: the error is at the brace
C2_Witness ==
    /\ FirstParse
    /\ source = <<"{", "\"", "a", "\"", ":", "1", ",", "}">>
    /\ results[1] = [kind |-> "err",
                     err |-> [msg |-> "Expect string, got '}'", line |-> 1,
                              column |-> 8]]

(***************************************************************************)
(* C4: when the token parse() stops at, the last one it took from the      *)
(* lexer, is a lexical Error token, the error returned carries the         *)
(* lexer's message and that token's line and column, at every place of     *)
(* the parser that can meet it.                                            *)
(***************************************************************************)
StoppedAtLexicalError ==
    /\ Len(results) = 1
    /\ results[1].kind = "err"
    /\ tokens # <<>>
    /\ Last(tokens) # NoToken
    /\ Last(tokens)[1].lexeme.tag = "Error"

C4_LexicalErrorVerbatim ==
    StoppedAtLexicalError =>
        results[1].err = [msg |-> Last(tokens)[1].lexeme.val,
                          line |-> Last(tokens)[1].line,
                          column |-> Last(tokens)[1].column]

\* consume(Colon) in read_kv meets the Error token
C4_Witness ==
    /\ StoppedAtLexicalError
    /\ source = <<"{", "\"", "a", "\"", "#", "1", "}">>
    /\ results[1].err = [msg |-> "Unexpected character", line |-> 1, column |-> 5]

(***************************************************************************)
(* C11: a well-formed object in which keys repeat parses to an Object with *)
(* one entry per distinct key, each key mapped to the value of its last    *)
(* occurrence in the source; no error is raised.  The texts are            *)
(* '{' pair (',' pair)* '}' with pair = STRING ':' leaf, so the i-th pair  *)
(* has its key at token 4i-2 and its value at token 4i.                    *)
(***************************************************************************)
PairCount(ts) == (Len(ts) - 2) \div 4

KeyAt(ts, i) == ts[4 * i - 2].lexeme.val

LeafAt(ts, i) ==
    IF ts[4 * i].lexeme.tag = "NumberLiteral"
    THEN [type |-> "Number", val |-> ts[4 * i].lexeme.val]
    ELSE [type |-> "String", val |-> ts[4 * i].lexeme.val]

LastOccurrence(ts, k) ==
    CHOOSE i \in 1..PairCount(ts) :
        /\ KeyAt(ts, i) = k
        /\ \A j \in 1..PairCount(ts) : KeyAt(ts, j) = k => j <= i

C11_LastWriteWins ==
    FirstParse =>
        LET ts == Stream
            keys == { KeyAt(ts, i) : i \in 1..PairCount(ts) }
        IN  /\ results[1].kind = "ok"
            /\ results[1].val.type = "Object"
            /\ DOMAIN results[1].val.val = keys
            /\ \A k \in keys :
                   results[1].val.val[k] = LeafAt(ts, LastOccurrence(ts, k))

\* {"a":1,"b":1,"a":2}: a maps to 2, b to 1
C11_Witness ==
    /\ FirstParse
    /\ source = <<"{", "\"", "a", "\"", ":", "1", ",", "\"", "b", "\"", ":", "1", ",",
                  "\"", "a", "\"", ":", "2", "}">>
    /\ results[1].kind = "ok"
    /\ DOMAIN results[1].val.val = {<<"a">>, <<"b">>}
    /\ results[1].val.val[<<"a">>] = Json_Number(parse_f64(<<"2">>))
    /\ results[1].val.val[<<"b">>] = Json_Number(parse_f64(<<"1">>))

(***************************************************************************)
(* C12: the tokens successive next_token() calls return lie at strictly    *)
(* increasing (line, column) positions, in lexicographic order, and a      *)
(* call never moves the lexer's own (line, column) backwards.              *)
(***************************************************************************)
Before(l1, c1, l2, c2) == l1 < l2 \/ (l1 = l2 /\ c1 < c2)

C12_TokensAscend ==
    \A i \in Returns : \A j \in Returns :
        i < j => Before(tokens[i][1].line, tokens[i][1].column,
                        tokens[j][1].line, tokens[j][1].column)

C12_LexerForward ==
    \/ Before(lexer.line, lexer.column, lexer'.line, lexer'.column)
    \/ (lexer'.line = lexer.line /\ lexer'.column = lexer.column)

C12_PositionsIncrease == [](C12_TokensAscend) /\ [][C12_LexerForward]_vars

\* a token in column 2 of line 1, the next one in column 1 of line 2
C12_Witness ==
    /\ Len(tokens) >= 2
    /\ tokens[1] # NoToken /\ tokens[2] # NoToken
    /\ tokens[1][1].line = 1 /\ tokens[1][1].column = 2
    /\ tokens[2][1].line = 2 /\ tokens[2][1].column = 1

(***************************************************************************)
(* C13: an array text '[' e1 ',' ... ',' en ']' with n >= 0 parses to an   *)
(* Array of exactly the n values of e1 .. en in that order, '[]' to the    *)
(* empty Array and '{}' to the empty Object; with a ',' before the closing *)
(* bracket parse() fails at that bracket, or at the ',' when no element    *)
(* precedes it.  The elements hold no ',' so the source splits at its      *)
(* commas.                                                                 *)
(***************************************************************************)
RECURSIVE SplitAtCommas(_, _)
SplitAtCommas(s, current) ==
    IF s = <<>> THEN <<current>>
    ELSE IF Head(s) = "," THEN <<current>> \o SplitAtCommas(Tail(s), <<>>)
    ELSE SplitAtCommas(Tail(s), Append(current, Head(s)))

ElementsOf(text) ==
    IF Len(text) = 2 THEN <<>>
    ELSE SplitAtCommas(SubSeq(text, 2, Len(text) - 1), <<>>)

ElementValue(e) ==
    CASE e = <<"1">> -> [type |-> "Number", val |-> parse_f64(<<"1">>)]
      [] e = <<"2">> -> [type |-> "Number", val |-> parse_f64(<<"2">>)]
      [] e = <<"\"", "a", "\"">> -> [type |-> "String", val |-> <<"a">>]
      [] e = <<"[", "]">> -> [type |-> "Array", val |-> <<>>]
      [] e = <<"[", "2", "]">> ->
             [type |-> "Array",
              val |-> <<[type |-> "Number", val |-> parse_f64(<<"2">>)]>>]
      [] e = <<"{", "}">> -> [type |-> "Object", val |-> <<>>]

HasTrailingComma == source[Len(source) - 1] = ","

\* '[,]' and '{,}': the ',' follows no element and is itself the error
OnlyComma == Len(source) = 3

C13_ArrayElementsInOrder ==
    FirstParse =>
        IF HasTrailingComma
        THEN /\ results[1].kind = "err"
             /\ results[1].err.line = 1
             /\ results[1].err.column = IF OnlyComma THEN 2 ELSE Len(source)
        ELSE IF source[1] = "["
        THEN LET es == ElementsOf(source)
             IN  /\ results[1].kind = "ok"
                 /\ results[1].val.type = "Array"
                 /\ Len(results[1].val.val) = Len(es)
                 /\ \A i \in 1..Len(es) :
                        results[1].val.val[i] = ElementValue(es[i])
        ELSE /\ results[1].kind = "ok"
             /\ results[1].val.type = "Object"
             /\ source = EmptyObject => results[1].val.val = <<>>

\* ["a",[2],1]: three elements, in the order of the source
C13_Witness ==
    /\ FirstParse
    /\ source = <<"[", "\"", "a", "\"", ",", "[", "2", "]", ",", "1", "]">>
    /\ results[1].kind = "ok"
    /\ results[1].val.val =
           << Json_String(<<"a">>),
              Json_Array(<<Json_Number(parse_f64(<<"2">>))>>),
              Json_Number(parse_f64(<<"1">>)) >>

(***************************************************************************)
(* C14: consume(expected) compares the category of the pending token with  *)
(* that of expected, payloads ignored.  On a match it returns that token   *)
(* and the pending tokens lose exactly it.  On a mismatch the pending      *)
(* tokens stay as they were and the error carries the pending token's line *)
(* and column; its message is 'Expect <expected>, got <actual>', except    *)
(* that for a pending lexical Error token it is the lexer's message.       *)
(* Pending is what the parser has still to read: the buffered token, then  *)
(* what the lexer goes on to return.  It is the token stream of the source *)
(* from its Taken-th token on, Taken counting the tokens pulled from the   *)
(* lexer and not buffered.                                                 *)
(***************************************************************************)
Pending ==
    (IF peeked = <<>> \/ peeked = <<NoToken>> THEN <<>> ELSE <<peeked[1][1]>>)
        \o TokenStream(lexer)

Taken == Len(tokens) - Len(peeked)

PendingFrom(taken) == SubSeq(Stream, taken + 1, Len(Stream))

PendingIsRestOfStream == Pending = PendingFrom(Taken)

Consumes(head, call, ret, taken, message) ==
    IF head.lexeme.tag = call.tag
    THEN /\ ret = [kind |-> "ok", tok |-> head]
         /\ PendingFrom(taken) = Tail(Pending)
    ELSE /\ PendingFrom(taken) = Pending
         /\ ret.kind = "err"
         /\ ret.err.line = head.line
         /\ ret.err.column = head.column
         /\ ret.err.msg = message

ConsumeCalled == results' # results /\ ~panicked' /\ Pending # <<>>

StructuralMessage(call, head) ==
    "Expect " \o meta_type(call) \o ", got " \o meta_type(head.lexeme)

C14_ConsumeStep ==
    ConsumeCalled =>
        LET head == Pending[1]
            call == Last(results').call
        IN  Consumes(head, call, Last(results').ret, Taken',
                     IF head.lexeme.tag = "Error" THEN head.lexeme.val
                     ELSE StructuralMessage(call, head))

C14_ConsumeMatchesCategory ==
    [](PendingIsRestOfStream) /\ [][C14_ConsumeStep]_vars

\* the claim as stated: every mismatch is reported as 'Expect .., got ..'
C14_AsStatedStep ==
    ConsumeCalled =>
        LET head == Pending[1]
            call == Last(results').call
        IN  Consumes(head, call, Last(results').ret, Taken',
                     StructuralMessage(call, head))

C14_MismatchAlwaysStructural == [][C14_AsStatedStep]_vars

\* 'false': consume(string) fails at 1:1 and leaves the token, which
\* consume(BoolLiteral(true)) then takes
C14_Witness ==
    /\ source = KwFalse
    /\ Len(results) = 2
    /\ results[1] = [call |-> StringLiteral(<<>>),
                     ret |-> [kind |-> "err",
                              err |-> [msg |-> "Expect string, got bool",
                                       line |-> 1, column |-> 1]]]
    /\ results[2].call = BoolLiteral(TRUE)
    /\ results[2].ret.kind = "ok"
    /\ results[2].ret.tok.lexeme = BoolLiteral(FALSE)

(***************************************************************************)
(* C15: primary() takes exactly one token out of the pending tokens in     *)
(* every case.  A null, bool, string or number token gives the leaf value  *)
(* of its payload.  Any other token gives an error at that token's line    *)
(* and column: the lexer's message for a lexical Error token, and 'Expect  *)
(* Primary, got <category>' for the rest.                                  *)
(***************************************************************************)
LeafOf(lexeme) ==
    CASE lexeme.tag = "NullLiteral" -> [type |-> "Null"]
      [] lexeme.tag = "BoolLiteral" -> [type |-> "Bool", val |-> lexeme.val]
      [] lexeme.tag = "StringLiteral" -> [type |-> "String", val |-> lexeme.val]
      [] lexeme.tag = "NumberLiteral" -> [type |-> "Number", val |-> lexeme.val]

PrimaryReturns(head, ret, taken, lexicalMessage) ==
    /\ PendingFrom(taken) = Tail(Pending)
    /\ IF head.lexeme.tag \in PrimaryTags
       THEN ret = [kind |-> "ok", val |-> LeafOf(head.lexeme)]
       ELSE ret = [kind |-> "err",
                   err |-> [msg |-> IF head.lexeme.tag = "Error"
                                    THEN lexicalMessage
                                    ELSE "Expect Primary, got "
                                             \o meta_type(head.lexeme),
                            line |-> head.line, column |-> head.column]]

PrimaryCalled == results' # results /\ ~panicked' /\ Pending # <<>>

C15_PrimaryStep ==
    PrimaryCalled =>
        PrimaryReturns(Pending[1], Last(results'), Taken', Pending[1].lexeme.val)

C15_PrimaryTakesOneToken ==
    [](PendingIsRestOfStream) /\ [][C15_PrimaryStep]_vars

\* the claim as stated: a lexical Error token is reported as
\* 'Expect Primary, got Error'
C15_AsStatedStep ==
    PrimaryCalled =>
        PrimaryReturns(Pending[1], Last(results'), Taken',
                       "Expect Primary, got " \o meta_type(Pending[1].lexeme))

C15_ErrorTokenIsStructural == [][C15_AsStatedStep]_vars

\* ']null': the first call fails at ']' and has taken it, the second
\* returns Null
C15_Witness ==
    /\ source = <<"]">> \o KwNull
    /\ results = << [kind |-> "err",
                     err |-> [msg |-> "Expect Primary, got ']'",
                              line |-> 1, column |-> 1]],
                    [kind |-> "ok", val |-> Json_Null] >>

(***************************************************************************)
(* C16: once parse() has returned an error, no later parse() call on the   *)
(* same Parser returns Ok.                                                 *)
(***************************************************************************)
C16_NoOkAfterError ==
    \A i \in DOMAIN results : \A j \in DOMAIN results :
        (i < j /\ results[i].kind = "err") => results[j].kind # "ok"

(***************************************************************************)
(* C17: a parse() call on a fresh Parser never reads past the terminal     *)
(* token: it does not panic with 'Impossible', the lexer never answers it  *)
(* None, and a terminal token (Eof or Error) is the last one it pulls.     *)
(***************************************************************************)
C17_NeverReadsPastTerminal ==
    Len(results) = 1 =>
        /\ ~(results[1].kind = "panic" /\ results[1].why = "Impossible")
        /\ \A i \in DOMAIN tokens :
               /\ tokens[i] # NoToken
               /\ IsTerminal(tokens[i]) => i = Len(tokens)

\* primary() has taken the Error token of '[#' and the call returned at once
C17_Witness ==
    /\ Len(results) = 1
    /\ source = <<"[", "#">>
    /\ results[1].kind = "err"
    /\ peeked = <<>>
    /\ Len(tokens) = 2
    /\ IsTerminal(tokens[2])

(***************************************************************************)
(* C18: a next_token() call that returns a non-terminal token leaves less  *)
(* input than it found; the non-terminal tokens returned are at most as    *)
(* many as the scalars of the source, so at most one more token is ever    *)
(* pulled from the lexer; and the first parse() call returns a value or an *)
(* error.                                                                  *)
(***************************************************************************)
NonTerminals == { i \in Returns : ~IsTerminal(tokens[i]) }

C18_TokenConsumes ==
    (tokens' # tokens /\ results' = results /\ ~IsTerminal(Last(tokens'))
         /\ Last(tokens') # NoToken)
        => Len(lexer'.start) < Len(lexer.start)

C18_PullsBounded ==
    /\ Cardinality(NonTerminals) <= Len(source)
    /\ Cardinality(Returns) <= Len(source) + 1
    /\ \A i \in NonTerminals : tokens[i][1].literal # <<>>

C18_ParseReturns == FirstParse => results[1].kind \in {"ok", "err"}

C18_LexerProgress == [](C18_PullsBounded) /\ [][C18_TokenConsumes]_vars

C18_FiniteTokensAndParseReturns ==
    [](C18_PullsBounded /\ C18_ParseReturns) /\ [][C18_TokenConsumes]_vars

====
